---- MODULE Spec2Model ----
(***************************************************************************)
(* Model of rando5.py, the NBA shot analysis dashboard.                    *)
(*                                                                         *)
(* The script is run from top to bottom once per page view: main() reads   *)
(* the sidebar selection, calls load_data() and routes to one of six page  *)
(* renderers.  A renderer computes its aggregate table from the loaded     *)
(* table with pandas group-by / mean / count and hands it to the screen.   *)
(*                                                                         *)
(* A table cell that pandas reads as missing is NA ("" for a text column,  *)
(* NaN for a numeric one).  Percentages are kept as exact fractions        *)
(* [num, den]; a fraction with den = 0 is the NaN mean of an empty group.  *)
(***************************************************************************)
EXTENDS Integers, Sequences, FiniteSets

VARIABLES file, page, selected_player, shots_df, table, invoked, outcome, reads

vars == <<file, page, selected_player, shots_df, table, invoked, outcome, reads>>

-----------------------------------------------------------------------------
(* Bounds of the model *)

\* rows of an input file of the general family
MaxRows == 2
\* blocks of identical rows of an input file of the clutch family
MaxBlocks == 2
\* page views (script runs) of one session
MaxViews == 2

-----------------------------------------------------------------------------
(* Program constants *)

\* clutch_analysis['Clutch Shots'] >= 10
MinClutchShots == 10
\* clutch_analysis.nlargest(10, ...)
TopN == 10
\* shots_df['PERIOD'] == 4
ClutchPeriod == 4
\* shots_df['MINUTES_REMAINING'] <= 2
ClutchMinutes == 2

-----------------------------------------------------------------------------
(* Cell values *)

\* a missing numeric cell, as read_csv yields it
NaN == 0 - 1
\* a missing text cell: an empty field of the file
NA == ""
\* st.selectbox over an empty option list returns None
None == "None"
\* selected_player of a run that did not reach (or has no) player selector
Unassigned == "unassigned"

\* text values in their sort order (sorted() and group-by order the keys)
PLAYER_NAMES == <<"Curry", "Harden">>
SHOT_ZONES == <<"Mid-Range", "Restricted Area">>
SHOT_TYPES == <<"2PT Field Goal", "3PT Field Goal">>

Range(s) == {s[i] : i \in DOMAIN s}

\* the columns the pages read
Columns ==
  {"PLAYER_NAME", "GAME_DATE", "SHOT_ZONE_BASIC", "SHOT_TYPE", "SHOT_MADE_FLAG",
   "PERIOD", "MINUTES_REMAINING", "LOC_X", "LOC_Y"}

\* the game dates of the season, as yyyymmdd
GAME_DATES == {20141028, 20150415}

\* One shot record.  CLOCK is the game clock left in the period, in seconds, when
\* the shot was taken; the file carries its whole-minute part as MINUTES_REMAINING.
\* The court coordinates are only drawn, never tabulated, and are left out.
Shot(player, date, zone, type, flag, period, clock) ==
  [PLAYER_NAME |-> player, GAME_DATE |-> date, SHOT_ZONE_BASIC |-> zone,
   SHOT_TYPE |-> type, SHOT_MADE_FLAG |-> flag, PERIOD |-> period,
   MINUTES_REMAINING |-> clock \div 60, CLOCK |-> clock]

-----------------------------------------------------------------------------
(* pandas operations used by the pages *)

IsNA(v) == v = NA

\* Series.unique(): the distinct values, NA included
Unique(rows, col) == {rows[i][col] : i \in DOMAIN rows}

\* Series.nunique(): the distinct values, NA excluded
NUnique(rows, col) == Cardinality({v \in Unique(rows, col) : ~IsNA(v)})

\* the keys of groupby(col): NA keys are dropped, the others sorted
GroupKeys(rows, col, order) ==
  SelectSeq(order, LAMBDA k : \E i \in DOMAIN rows : rows[i][col] = k)

\* the rows of one group
Group(rows, col, k) == SelectSeq(rows, LAMBDA r : r[col] = k)

\* 'count': the cells of SHOT_MADE_FLAG that are not NaN
Count(rows) == Len(SelectSeq(rows, LAMBDA r : r.SHOT_MADE_FLAG # NaN))

RECURSIVE SumFlags(_)
\* the sum of the cells of SHOT_MADE_FLAG that are not NaN
SumFlags(rows) ==
  IF rows = <<>> THEN 0
  ELSE (IF Head(rows).SHOT_MADE_FLAG = NaN THEN 0 ELSE Head(rows).SHOT_MADE_FLAG)
       + SumFlags(Tail(rows))

\* 'mean': sum / count over the cells that are not NaN
Mean(rows) == [num |-> SumFlags(rows), den |-> Count(rows)]

\* the accuracy left as a fraction of 1
Times100_unscaled(q) == q

\* accuracy * 100
Times100(q) == [num |-> q.num * 100, den |-> q.den]

\* groupby(col).agg({'SHOT_MADE_FLAG': ['mean', 'count']}).reset_index()
GroupAgg(rows, col, order) ==
  LET keys == GroupKeys(rows, col, order)
  IN  [i \in 1..Len(keys) |->
         [Key |-> keys[i],
          Accuracy |-> Mean(Group(rows, col, keys[i])),
          TotalShots |-> Count(Group(rows, col, keys[i]))]]

\* columns = ['Shot Zone', 'Accuracy', 'Total Shots']; Accuracy = Accuracy * 100
ZoneAccuracy(rows) ==
  LET g == GroupAgg(rows, "SHOT_ZONE_BASIC", SHOT_ZONES)
  IN  [i \in 1..Len(g) |->
         [ShotZone |-> g[i].Key, Accuracy |-> Times100(g[i].Accuracy),
          TotalShots |-> g[i].TotalShots]]

\* a filter for which a missing name equals a missing name
PlayerRows_na_equal(rows, selected) ==
  SelectSeq(rows, LAMBDA r : r.PLAYER_NAME = selected)

\* shots_df[shots_df['PLAYER_NAME'] == selected_player]: the rows of one player.
\* A comparison with NA (or with None) is False for every row.
PlayerRows(rows, selected) ==
  SelectSeq(rows, LAMBDA r : ~IsNA(r.PLAYER_NAME) /\ r.PLAYER_NAME = selected)

\* (PERIOD == 4) & (MINUTES_REMAINING <= 2); a comparison with NaN is False
ClutchFilter(rows) ==
  SelectSeq(rows, LAMBDA r : /\ r.PERIOD = ClutchPeriod
                             /\ r.MINUTES_REMAINING # NaN
                             /\ r.MINUTES_REMAINING <= ClutchMinutes)

\* columns = ['Player', 'Clutch Accuracy', 'Clutch Shots']; accuracy * 100
ClutchAnalysis(rows) ==
  LET g == GroupAgg(rows, "PLAYER_NAME", PLAYER_NAMES)
  IN  [i \in 1..Len(g) |->
         [Player |-> g[i].Key, ClutchAccuracy |-> Times100(g[i].Accuracy),
          ClutchShots |-> g[i].TotalShots]]

\* clutch_analysis[clutch_analysis['Clutch Shots'] >= 10]
SignificantAttempts(t) == SelectSeq(t, LAMBDA r : r.ClutchShots >= MinClutchShots)

\* a > b for two fractions that are numbers (den > 0)
Greater(a, b) == a.num * b.den > b.num * a.den

\* the position of the first row of t with the largest Clutch Accuracy
FirstLargest(t) ==
  CHOOSE i \in DOMAIN t :
    /\ \A j \in DOMAIN t : ~Greater(t[j].ClutchAccuracy, t[i].ClutchAccuracy)
    /\ \A j \in 1..(i - 1) : Greater(t[i].ClutchAccuracy, t[j].ClutchAccuracy)

RECURSIVE NLargest(_, _)
\* DataFrame.nlargest(n, 'Clutch Accuracy'): the n rows of largest accuracy, in
\* descending order, equal values in their order of appearance (keep='first')
NLargest(n, t) ==
  IF n = 0 \/ t = <<>> THEN <<>>
  ELSE LET i == FirstLargest(t)
       IN  <<t[i]>> \o NLargest(n - 1, SubSeq(t, 1, i - 1) \o SubSeq(t, i + 1, Len(t)))

\* 'Percentage of Total Shots' = Total Shots / len(shots_df) * 100
ShotTypeEffectiveness(rows) ==
  LET g == GroupAgg(rows, "SHOT_TYPE", SHOT_TYPES)
  IN  [i \in 1..Len(g) |->
         [ShotType |-> g[i].Key, Accuracy |-> Times100(g[i].Accuracy),
          TotalShots |-> g[i].TotalShots,
          PercentageOfTotalShots |->
            [num |-> g[i].TotalShots * 100, den |-> Len(rows)]]]

-----------------------------------------------------------------------------
(* The input file and load_data *)

\* a table with no column and no row: shots_df before it is assigned
NoFrame == [columns |-> {}, rows |-> <<>>]

\* pd.read_csv('shots_fixed.csv').  A file that is absent or that the parser
\* rejects raises; any other file is returned as the table the parser made of
\* it, whatever its columns are: nothing is validated.
load_data ==
  CASE file.kind = "missing"     -> [raised |-> "FileNotFoundError", df |-> NoFrame]
    [] file.kind = "unparseable" -> [raised |-> "ParserError", df |-> NoFrame]
    [] OTHER                     -> [raised |-> "no", df |-> file.content]

-----------------------------------------------------------------------------
(* The six pages.  Each yields the table it displays, how it ended, and the  *)
(* base table as it is when the page returns.                                *)

\* shots_df[col] of a column the table lacks raises KeyError
Has(df, cols) == cols \subseteq df.columns

Min(S) == CHOOSE x \in S : \A y \in S : x <= y
Max(S) == CHOOSE x \in S : \A y \in S : x >= y

\* min() to max() of GAME_DATE; NaN to NaN for a table without rows
DateRange(rows) ==
  IF rows = <<>> THEN <<NaN, NaN>>
  ELSE <<Min(Unique(rows, "GAME_DATE")), Max(Unique(rows, "GAME_DATE"))>>

home_page(df) ==
  IF ~Has(df, {"PLAYER_NAME", "GAME_DATE"})
  THEN [table |-> <<>>, outcome |-> "KeyError", shots_df |-> df]
  ELSE [table |-> <<[total_shots |-> Len(df.rows),
                     unique_players |-> NUnique(df.rows, "PLAYER_NAME"),
                     date_range |-> DateRange(df.rows)]>>,
        outcome |-> "ok", shots_df |-> df]

shot_accuracy_zone_page(df) ==
  IF ~Has(df, {"SHOT_ZONE_BASIC", "SHOT_MADE_FLAG"})
  THEN [table |-> <<>>, outcome |-> "KeyError", shots_df |-> df]
  ELSE [table |-> ZoneAccuracy(df.rows), outcome |-> "ok", shots_df |-> df]

\* sorted(shots_df['PLAYER_NAME'].unique()): sorted() cannot order a NaN (a float)
\* against a name (a str) and raises TypeError; a lone NaN needs no comparison
Sortable(names) == ~(NA \in names /\ names # {NA})

\* what st.selectbox can return: one of the options, or None when there is none
Selectable(names) == IF names = {} THEN {None} ELSE names

\* the page with the filter applied to shots_df itself
player_shooting_zones_page_inplace(df, selected) ==
  LET player_data == [columns |-> df.columns, rows |-> PlayerRows(df.rows, selected)]
  IN  [table |-> ZoneAccuracy(player_data.rows), outcome |-> "ok",
       shots_df |-> player_data]

player_shooting_zones_page(df, selected) ==
  IF ~Has(df, {"PLAYER_NAME"})
  THEN [table |-> <<>>, outcome |-> "KeyError", shots_df |-> df]
  ELSE IF ~Sortable(Unique(df.rows, "PLAYER_NAME"))
  THEN [table |-> <<>>, outcome |-> "TypeError", shots_df |-> df]
  ELSE IF ~Has(df, {"SHOT_ZONE_BASIC", "SHOT_MADE_FLAG"})
  THEN [table |-> <<>>, outcome |-> "KeyError", shots_df |-> df]
  ELSE [table |-> ZoneAccuracy(PlayerRows(df.rows, selected)), outcome |-> "ok",
        shots_df |-> df]

clutch_performance_page(df) ==
  IF ~Has(df, {"PERIOD", "MINUTES_REMAINING", "PLAYER_NAME", "SHOT_MADE_FLAG"})
  THEN [table |-> <<>>, outcome |-> "KeyError", shots_df |-> df]
  ELSE [table |-> NLargest(TopN, SignificantAttempts(ClutchAnalysis(ClutchFilter(df.rows)))),
        outcome |-> "ok", shots_df |-> df]

shot_type_effectiveness_page(df) ==
  IF ~Has(df, {"SHOT_TYPE", "SHOT_MADE_FLAG"})
  THEN [table |-> <<>>, outcome |-> "KeyError", shots_df |-> df]
  ELSE [table |-> ShotTypeEffectiveness(df.rows), outcome |-> "ok", shots_df |-> df]

shot_location_heatmap_page(df, selected) ==
  IF ~Has(df, {"PLAYER_NAME"})
  THEN [table |-> <<>>, outcome |-> "KeyError", shots_df |-> df]
  ELSE IF ~Sortable(Unique(df.rows, "PLAYER_NAME"))
  THEN [table |-> <<>>, outcome |-> "TypeError", shots_df |-> df]
  ELSE IF ~Has(df, {"LOC_X", "LOC_Y", "SHOT_ZONE_BASIC", "SHOT_MADE_FLAG"})
  THEN [table |-> <<>>, outcome |-> "KeyError", shots_df |-> df]
  ELSE [table |-> ZoneAccuracy(PlayerRows(df.rows, selected)), outcome |-> "ok",
        shots_df |-> df]

-----------------------------------------------------------------------------
(* main: one run of the script, that is one page view *)

Pages ==
  {"Home", "Shot Accuracy by Zone", "Player Shooting Zones",
   "Clutch Performance Analysis", "Shot Type Effectiveness",
   "Shot Location Heat Maps"}

\* the pages with a player selector
PlayerPages == {"Player Shooting Zones", "Shot Location Heat Maps"}

\* the page routing of main
Route(p, df, selected) ==
  CASE p = "Home"                        -> home_page(df)
    [] p = "Shot Accuracy by Zone"       -> shot_accuracy_zone_page(df)
    [] p = "Player Shooting Zones"       -> player_shooting_zones_page(df, selected)
    [] p = "Clutch Performance Analysis" -> clutch_performance_page(df)
    [] p = "Shot Type Effectiveness"     -> shot_type_effectiveness_page(df)
    [] p = "Shot Location Heat Maps"     -> shot_location_heatmap_page(df, selected)

\* the values the player selector of page p can hold for the table df
Selections(p, df) ==
  IF p \in PlayerPages /\ Has(df, {"PLAYER_NAME"})
                       /\ Sortable(Unique(df.rows, "PLAYER_NAME"))
  THEN Selectable(Unique(df.rows, "PLAYER_NAME"))
  ELSE {Unassigned}

\* one run of the script with p selected in the sidebar
main(p) ==
  /\ reads < MaxViews
  /\ reads' = reads + 1
  /\ file' = file
  /\ LET loaded == load_data
     IN  IF loaded.raised # "no"
         THEN /\ outcome' = loaded.raised
              /\ invoked' = "none"
              /\ shots_df' = NoFrame
              /\ table' = <<>>
              /\ selected_player' = Unassigned
         ELSE \E selected \in Selections(p, loaded.df) :
                LET view == Route(p, loaded.df, selected)
                IN  /\ outcome' = view.outcome
                    /\ invoked' = p
                    /\ shots_df' = view.shots_df
                    /\ table' = view.table
                    /\ selected_player' = selected

\* The user selects a page in the sidebar, which runs the script.
ViewHome ==
  /\ page' = "Home"
  /\ main("Home")

ViewShotAccuracyZone ==
  /\ page' = "Shot Accuracy by Zone"
  /\ main("Shot Accuracy by Zone")

ViewPlayerShootingZones ==
  /\ page' = "Player Shooting Zones"
  /\ main("Player Shooting Zones")

ViewClutchPerformance ==
  /\ page' = "Clutch Performance Analysis"
  /\ main("Clutch Performance Analysis")

ViewShotTypeEffectiveness ==
  /\ page' = "Shot Type Effectiveness"
  /\ main("Shot Type Effectiveness")

ViewShotLocationHeatMaps ==
  /\ page' = "Shot Location Heat Maps"
  /\ main("Shot Location Heat Maps")

Next ==
  \/ ViewHome
  \/ ViewShotAccuracyZone
  \/ ViewPlayerShootingZones
  \/ ViewClutchPerformance
  \/ ViewShotTypeEffectiveness
  \/ ViewShotLocationHeatMaps

-----------------------------------------------------------------------------
(* Input files *)

\* sequences over S of length at most n
SeqUpTo(S, n) == UNION {[1..k -> S] : k \in 0..n}

\* records that differ in player, zone and made flag, zone and flag possibly
\* missing, and records without a player name
ZoneShots ==
  {Shot(pl, 20141028, z, "2PT Field Goal", f, 1, 300) :
     pl \in Range(PLAYER_NAMES), z \in Range(SHOT_ZONES) \cup {NA}, f \in {0, 1, NaN}}
  \cup {Shot(NA, 20141028, "Mid-Range", "2PT Field Goal", f, 1, 300) : f \in {0, 1}}

\* records that differ in shot type and made flag, cells possibly missing, and a
\* record of another game
TypeShots ==
  {Shot("Curry", 20141028, "Mid-Range", t, f, 4, 90) :
     t \in Range(SHOT_TYPES) \cup {NA}, f \in {0, 1, NaN}}
  \cup {Shot("Curry", 20150415, "Mid-Range", "3PT Field Goal", 1, 4, 90)}

\* a file that parses, but not into the expected columns (another delimiter)
WrongColumns == [columns |-> {"PLAYER_NAME;GAME_DATE;SHOT_ZONE_BASIC"}, rows |-> <<>>]

Files(tables) ==
  {[kind |-> "missing", content |-> NoFrame],
   [kind |-> "unparseable", content |-> NoFrame],
   [kind |-> "table", content |-> WrongColumns]}
  \cup {[kind |-> "table", content |-> [columns |-> Columns, rows |-> rows]] :
          rows \in tables}

InitSession ==
  /\ page = "Home"
  /\ selected_player = Unassigned
  /\ shots_df = NoFrame
  /\ table = <<>>
  /\ invoked = "none"
  /\ outcome = "not run"
  /\ reads = 0

Init ==
  /\ file \in Files(SeqUpTo(ZoneShots, MaxRows) \cup SeqUpTo(TypeShots, MaxRows))
  /\ InitSession

Spec == Init /\ [][Next]_vars

\* records of the fourth period and its neighbours, around the two-minute mark
ClutchShots ==
  {Shot(pl, 20150415, "Mid-Range", "2PT Field Goal", f, pc[1], pc[2]) :
     pl \in Range(PLAYER_NAMES), f \in {0, 1, NaN},
     pc \in {<<4, 90>>, <<4, 150>>, <<4, 180>>, <<3, 90>>, <<5, 90>>}}

\* n copies of the record r
Repeat(r, n) == [i \in 1..n |-> r]

\* a run of one record or of as many as the attempt threshold asks for
Blocks == {Repeat(r, n) : r \in ClutchShots, n \in {1, MinClutchShots}}

RECURSIVE Flatten(_)
Flatten(blocks) ==
  IF blocks = <<>> THEN <<>> ELSE Head(blocks) \o Flatten(Tail(blocks))

InitClutch ==
  /\ file \in Files({Flatten(b) : b \in SeqUpTo(Blocks, MaxBlocks)})
  /\ InitSession

SpecClutch == InitClutch /\ [][Next]_vars

-----------------------------------------------------------------------------
(* Properties *)

\* the shot records of the input file
Records == file.content.rows

\* the records r of the file (by position) that satisfy P
Where(P(_)) == {j \in DOMAIN Records : P(Records[j])}

Viewed(p) == invoked = p /\ outcome = "ok"

\* C1: on the zone page of a dataset whose made flags are all 0 or 1, every zone of
\* the table has Total Shots = the number of shots in the zone and Accuracy =
\* 100 * made / shots, a number from 0 to 100.
C1_ZoneAccuracy ==
  (Viewed("Shot Accuracy by Zone") /\ \A j \in DOMAIN Records :
                                        Records[j].SHOT_MADE_FLAG \in {0, 1})
  => \A i \in DOMAIN table :
       LET z == table[i].ShotZone
           shots == Cardinality(Where(LAMBDA r : r.SHOT_ZONE_BASIC = z))
           made == Cardinality(Where(LAMBDA r : r.SHOT_ZONE_BASIC = z
                                                 /\ r.SHOT_MADE_FLAG = 1))
           acc == table[i].Accuracy
       IN  /\ table[i].TotalShots = shots
           /\ shots > 0 /\ acc.den > 0
           /\ acc.num * shots = 100 * made * acc.den
           /\ 0 <= acc.num /\ acc.num <= 100 * acc.den

\* a zone with two shots, one of them made, is reported at 50 per cent
C1_Witness ==
  /\ Viewed("Shot Accuracy by Zone")
  /\ \A j \in DOMAIN Records : Records[j].SHOT_MADE_FLAG \in {0, 1}
  /\ \E i \in DOMAIN table :
       /\ table[i].TotalShots = 2
       /\ table[i].Accuracy.num = 50 * table[i].Accuracy.den

RECURSIVE SumShares(_)
\* the sum of the numerators of the shares, which have len(shots_df) as denominator
SumShares(t) ==
  IF t = <<>> THEN 0 ELSE Head(t).PercentageOfTotalShots.num + SumShares(Tail(t))

\* C2: on the shot type page of a non-empty dataset, missing shot types and made
\* flags included, the 'Percentage of Total Shots' values sum to 100.
C2_SharesSumTo100 ==
  (Viewed("Shot Type Effectiveness") /\ Records # <<>>)
  => SumShares(table) = 100 * Len(Records)

\* the qualifying clutch attempts of player p: his shots that pass the clutch filter
Qualifying(p) ==
  Where(LAMBDA r : r.PLAYER_NAME = p /\ r.PERIOD = 4 /\ r.MINUTES_REMAINING # NaN
                   /\ r.MINUTES_REMAINING <= 2)

Listed == {table[i].Player : i \in DOMAIN table}

\* C3: on the clutch page no player with fewer than 10 qualifying attempts is
\* listed, and the Clutch Shots of a listed player is the number of his qualifying
\* attempts and is at least 10.
C3_MinimumAttempts ==
  Viewed("Clutch Performance Analysis")
  => /\ \A p \in Range(PLAYER_NAMES) :
          Cardinality(Qualifying(p)) < 10 => p \notin Listed
     /\ \A i \in DOMAIN table :
          /\ table[i].ClutchShots = Cardinality(Qualifying(table[i].Player))
          /\ table[i].ClutchShots >= 10

\* the players with at least 10 qualifying attempts
Eligible == {p \in Range(PLAYER_NAMES) : Cardinality(Qualifying(p)) >= 10}

\* the made and the recorded flags among the qualifying attempts of p
MadeOf(p) == Cardinality({j \in Qualifying(p) : Records[j].SHOT_MADE_FLAG = 1})
RecordedOf(p) == Cardinality({j \in Qualifying(p) : Records[j].SHOT_MADE_FLAG # NaN})

\* C4: the clutch list is in descending order of Clutch Accuracy, has at most 10
\* rows, leaves out no eligible player of strictly higher accuracy than a listed
\* one, and lists every eligible player when there are 10 or fewer.
C4_TopTenOfEligible ==
  Viewed("Clutch Performance Analysis")
  => /\ Len(table) <= 10
     /\ \A i, k \in DOMAIN table :
          i < k => ~Greater(table[k].ClutchAccuracy, table[i].ClutchAccuracy)
     /\ \A p \in Eligible \ Listed : \A i \in DOMAIN table :
          MadeOf(p) * 100 * table[i].ClutchAccuracy.den
            <= table[i].ClutchAccuracy.num * RecordedOf(p)
     /\ Cardinality(Eligible) <= 10 => Eligible \subseteq Listed

\* C5: every shot counted for a listed player on the clutch page is of period 4
\* and was taken with no more than 120 seconds left on the game clock.
C5_LastTwoMinutes ==
  Viewed("Clutch Performance Analysis")
  => \A r \in Range(ClutchFilter(shots_df.rows)) :
       r.PLAYER_NAME \in Listed => r.PERIOD = 4 /\ r.CLOCK <= 120

RECURSIVE SumTotalShots(_)
SumTotalShots(t) == IF t = <<>> THEN 0 ELSE Head(t).TotalShots + SumTotalShots(Tail(t))

\* C6: on the player zones page the Total Shots of the table of the selected player
\* sum to the number of shot records of that player.
C6_PlayerCountsSum ==
  (Viewed("Player Shooting Zones") /\ selected_player \in Range(PLAYER_NAMES))
  => SumTotalShots(table)
       = Cardinality(Where(LAMBDA r : r.PLAYER_NAME = selected_player))

Loaded(o) == o \notin {"not run", "FileNotFoundError", "ParserError"}

\* C8: no page view changes the input file, and the base table a view leaves is the
\* table of the file.
C8_BaseTableUnchanged ==
  [][file' = file /\ (Loaded(outcome') => shots_df' = file.content)]_vars

\* a second view that tabulated the shots of one of two players
C8_Witness ==
  /\ reads = 2 /\ Viewed("Player Shooting Zones") /\ table # <<>>
  /\ \E j \in DOMAIN Records : Records[j].PLAYER_NAME # selected_player
  /\ shots_df = file.content

\* a file with the expected columns
WellFormed == file.kind = "table" /\ Columns \subseteq file.content.columns

\* C9: a run on a missing or malformed file ends in the error of load_data and
\* invokes no page renderer.
C9_BadFileAborts ==
  (reads > 0 /\ ~WellFormed)
  => outcome \in {"FileNotFoundError", "ParserError"} /\ invoked = "none"

\* C10: the input file is read at most once in a session.
C10_FileReadAtMostOnce == reads <= 1

====
